---- MODULE Spec2Model ----
(***************************************************************************)
(* A model of bot.py: the Content Safety Gate (contains_profanity,         *)
(* is_content_safe), the chat turn handler (on_message) with its history   *)
(* store, the moderation commands (cmd_kick, cmd_ban, cmd_timeout), the    *)
(* text repair commands (context_edit, slash_edit and their article        *)
(* variants) with fetch_message_from_identifier, and the repair transform  *)
(* run_language_tool_check.                                                *)
(*                                                                         *)
(* Text is a sequence of one-character strings.  A character outside ASCII *)
(* is written as the one-element string naming its code point ("U+2014").  *)
(***************************************************************************)
EXTENDS Integers, Sequences, FiniteSets, TLC

VARIABLES
    openai_enabled,  \* OPENAI_API_KEY and openai (bot.py:32, 53, 348)
    BOT_OWNER_ID,    \* bot.py:30
    gate,            \* the last call of is_content_safe and what it returned
    history,         \* the rows of table history, in insertion (rowid) order
    now,             \* CURRENT_TIMESTAMP, in seconds
    turn,            \* one on_message invocation per inbound message
    members,         \* platform state of the guild members
    inv,             \* the moderation command invocation being handled
    events,          \* platform API calls of the current invocation, in order
    handled,         \* number of moderation invocations started so far
    trace,           \* what the chat turns did to the table and the platform
    load_call,       \* the last call of load_history_for_channel
    edit,            \* the text repair request being handled
    repair           \* the last run of the local repair transform

vars ==
    <<openai_enabled, BOT_OWNER_ID, gate, history, now, turn, members, inv,
      events, handled, trace, load_call, edit, repair>>

chat_vars ==
    <<history, now, turn, trace>>

mod_vars ==
    <<members, inv, events, handled>>

tool_vars ==
    <<load_call, edit, repair>>

Range(s) ==
    { s[i] : i \in 1..Len(s) }

----------------------------------------------------------------------------
(* Characters and the str / re primitives the program uses.                *)

UPPER ==
    <<"A", "B", "C", "D", "E", "F", "G", "H", "I", "J", "K", "L", "M",
      "N", "O", "P", "Q", "R", "S", "T", "U", "V", "W", "X", "Y", "Z">>

LOWER ==
    <<"a", "b", "c", "d", "e", "f", "g", "h", "i", "j", "k", "l", "m",
      "n", "o", "p", "q", "r", "s", "t", "u", "v", "w", "x", "y", "z">>

DIGITS ==
    {"0", "1", "2", "3", "4", "5", "6", "7", "8", "9"}

WHITESPACE ==
    {" ", "\n", "\t", "\r"}

LOWER_OF ==
    [ch \in Range(UPPER) |-> LOWER[CHOOSE i \in 1..26 : UPPER[i] = ch]]

\* str.lower() on one character
lower_char(ch) ==
    IF ch \in DOMAIN LOWER_OF THEN LOWER_OF[ch] ELSE ch

\* str.lower()
lower(s) ==
    [i \in 1..Len(s) |-> lower_char(s[i])] \o <<>>

WORD_CHARS ==
    Range(UPPER) \cup Range(LOWER) \cup DIGITS \cup {"_"}

\* the class \w of re
IsWordChar(ch) ==
    ch \in WORD_CHARS

\* the assertion \b of re at the gap before s[p], p in 1..Len(s)+1
word_boundary(s, p) ==
    LET before == p > 1 /\ IsWordChar(s[p - 1])
        after == p <= Len(s) /\ IsWordChar(s[p])
    IN  before # after

\* re.search(rf"\b{re.escape(w)}\b", s) finds a match
search_word(w, s) ==
    \E i \in 1..(Len(s) - Len(w) + 1) :
        /\ \A k \in 1..Len(w) : s[i + k - 1] = w[k]
        /\ word_boundary(s, i)
        /\ word_boundary(s, i + Len(w))

\* str.strip()
RECURSIVE lstrip(_)
lstrip(s) ==
    IF s # <<>> /\ Head(s) \in WHITESPACE THEN lstrip(Tail(s)) ELSE s

RECURSIVE rstrip(_)
rstrip(s) ==
    IF s # <<>> /\ s[Len(s)] \in WHITESPACE
    THEN rstrip(SubSeq(s, 1, Len(s) - 1))
    ELSE s

strip(s) ==
    rstrip(lstrip(s))

----------------------------------------------------------------------------
(* The fixed texts of the program.                                         *)

BADWORD1 ==
    <<"b", "a", "d", "w", "o", "r", "d", "1">>

BADWORD2 ==
    <<"b", "a", "d", "w", "o", "r", "d", "2">>

PROFANITY ==
    {BADWORD1, BADWORD2}

REFUSE_INPUT ==
    <<"S", "o", "r", "r", "y", " ", "U+2014", " ", "I", " ", "c", "a", "n",
      "'", "t", " ", "r", "e", "s", "p", "o", "n", "d", " ", "t", "o", " ",
      "t", "h", "a", "t", " ", "c", "o", "n", "t", "e", "n", "t", ".">>

SYSTEM_PROMPT ==
    <<"Y", "o", "u", " ", "a", "r", "e", " ", "a", " ", "f", "r", "i", "e",
      "n", "d", "l", "y", ",", " ", "h", "e", "l", "p", "f", "u", "l", " ",
      "a", "s", "s", "i", "s", "t", "a", "n", "t", ".", " ", "A", "l", "w",
      "a", "y", "s", " ", "b", "e", " ", "p", "o", "l", "i", "t", "e", " ",
      "a", "n", "d", " ", "a", "v", "o", "i", "d", " ", "p", "r", "o", "f",
      "a", "n", "i", "t", "y", ".">>

APOLOGY ==
    <<"S", "o", "r", "r", "y", " ", "U+2014", " ", "I", "'", "m", " ", "h",
      "a", "v", "i", "n", "g", " ", "t", "r", "o", "u", "b", "l", "e", " ",
      "a", "c", "c", "e", "s", "s", "i", "n", "g", " ", "t", "h", "e", " ",
      "A", "I", " ", "s", "e", "r", "v", "i", "c", "e", " ", "r", "i", "g",
      "h", "t", " ", "n", "o", "w", ".", " ", "P", "l", "e", "a", "s", "e",
      " ", "t", "r", "y", " ", "a", "g", "a", "i", "n", " ", "l", "a", "t",
      "e", "r", ".">>

ECHO_PREFIX ==
    <<"Y", "o", "u", " ", "s", "a", "i", "d", ":", " ">>

ECHO_SUFFIX ==
    <<"\n", "\n", "(", "Y", "o", "u", " ", "c", "a", "n", " ", "e", "n",
      "a", "b", "l", "e", " ", "s", "m", "a", "r", "t", "e", "r", " ", "r",
      "e", "p", "l", "i", "e", "s", " ", "b", "y", " ", "a", "d", "d", "i",
      "n", "g", " ", "O", "P", "E", "N", "A", "I", "_", "A", "P", "I", "_",
      "K", "E", "Y", " ", "t", "o", " ", "y", "o", "u", "r", " ", ".", "e",
      "n", "v", ".", ")">>

REFUSE_OUTPUT ==
    <<"S", "o", "r", "r", "y", " ", "U+2014", " ", "I", " ", "c", "a", "n",
      "'", "t", " ", "s", "h", "a", "r", "e", " ", "t", "h", "a", "t", " ",
      "c", "o", "n", "t", "e", "n", "t", ".">>

----------------------------------------------------------------------------
(* Content Safety Gate.                                                    *)

\* contains_profanity without text.lower()
contains_profanity_case_sensitive(text) ==
    \E w \in PROFANITY : search_word(w, text)

contains_profanity(text) ==
    LET text_l == lower(text)
    IN  \E w \in PROFANITY : search_word(w, text_l)

\* What openai.Moderation.create and the reading of its response can do:
\* report flagged, report not flagged, or raise (an answer without
\* "results" raises KeyError in the same try).
ServiceOutcomes ==
    {"flagged", "clean", "raise"}

\* is_content_safe with a failed service call counted as a verdict of unsafe
is_content_safe_fail_closed(text, configured, service) ==
    IF contains_profanity(text)
    THEN [safe |-> FALSE, calls |-> 0, raised |-> FALSE]
    ELSE IF configured
         THEN IF service \in {"flagged", "raise"}
              THEN [safe |-> FALSE, calls |-> 1, raised |-> FALSE]
              ELSE [safe |-> TRUE, calls |-> 1, raised |-> FALSE]
         ELSE [safe |-> TRUE, calls |-> 0, raised |-> FALSE]

\* is_content_safe(text) when the moderation service would answer `service`.
\* safe: the value returned; calls: calls made to the service; raised: an
\* exception left the function.
is_content_safe(text, configured, service) ==
    IF contains_profanity(text)
    THEN [safe |-> FALSE, calls |-> 0, raised |-> FALSE]
    ELSE IF configured
         THEN IF service = "flagged"
              THEN [safe |-> FALSE, calls |-> 1, raised |-> FALSE]
              ELSE [safe |-> TRUE, calls |-> 1, raised |-> FALSE]
         ELSE [safe |-> TRUE, calls |-> 0, raised |-> FALSE]

\* Inputs of the gate: concatenations of at most MaxChunks chunks.
MaxChunks ==
    3

Chunks ==
    { BADWORD1,
      <<"B", "a", "d", "W", "O", "R", "D", "2">>,
      <<" ">>, <<"x">>, <<".">>, <<"_">> }

RECURSIVE TextsUpTo(_)
TextsUpTo(n) ==
    IF n = 0
    THEN {<<>>}
    ELSE LET shorter == TextsUpTo(n - 1)
         IN  shorter \cup { t \o ch : t \in shorter, ch \in Chunks }

GateTexts ==
    TextsUpTo(MaxChunks)

GateIdle ==
    [called |-> FALSE, text |-> <<>>, service |-> "clean",
     safe |-> TRUE, calls |-> 0, raised |-> FALSE]

\* one call of is_content_safe
GateCheck(text, service) ==
    /\ ~gate.called
    /\ gate' = [called |-> TRUE, text |-> text, service |-> service]
                 @@ is_content_safe(text, openai_enabled, service)
    /\ UNCHANGED <<openai_enabled, BOT_OWNER_ID>>
    /\ UNCHANGED chat_vars
    /\ UNCHANGED mod_vars
    /\ UNCHANGED tool_vars

----------------------------------------------------------------------------
(* History store.                                                          *)

\* INSERT INTO history (channel_id, role, content); created_at defaults to
\* CURRENT_TIMESTAMP, read as ts.
save_message_to_history(h, channel_id, role, content, ts) ==
    Append(h, [channel_id |-> channel_id, role |-> role, content |-> content,
               created_at |-> ts])

\* The orders in which ORDER BY created_at DESC can return the rows idx of
\* h: rows with equal created_at come in an order SQL leaves unspecified.
RECURSIVE desc_orders(_, _)
desc_orders(h, idx) ==
    IF idx = {}
    THEN {<<>>}
    ELSE UNION { { <<i>> \o rest : rest \in desc_orders(h, idx \ {i}) } :
                 i \in { j \in idx :
                         \A k \in idx : h[j].created_at >= h[k].created_at } }

reversed(s) ==
    [i \in 1..Len(s) |-> s[Len(s) + 1 - i]]

\* The values load_history_for_channel(channel_id, limit) can return.
load_history_for_channel(h, channel_id, limit) ==
    LET idx == { i \in 1..Len(h) : h[i].channel_id = channel_id }
        n == IF Cardinality(idx) < limit THEN Cardinality(idx) ELSE limit
    IN  { reversed([i \in 1..n |-> <<h[ord[i]].role, h[ord[i]].content>>]) :
          ord \in desc_orders(h, idx) }

----------------------------------------------------------------------------
(* Chat turn handler: on_message.                                          *)

HISTORY_LIMIT ==
    10

MaxTurns ==
    2

MaxClock ==
    1

Turns ==
    1..MaxTurns

Channels ==
    {1, 2}

UserTexts ==
    { <<"h", "i">>,
      <<"B", "a", "d", "w", "o", "r", "d", "1", " ", "h", "i">> }

\* message.author.bot and message.reference: no reference, a reference that
\* is not resolved to a Message, one resolved to a message of this bot, one
\* resolved to a message of another author.
References ==
    {"none", "unresolved", "bot", "other"}

Messages ==
    { [channel |-> c, author_bot |-> b, reference |-> r, content |-> x] :
      c \in Channels, b \in BOOLEAN, r \in References, x \in UserTexts }

\* openai.ChatCompletion.create: raises (or answers in a shape the reading
\* of resp raises on), or answers with a content.
BackendOutcomes ==
    { [raised |-> TRUE, content |-> <<>>] } \cup
    { [raised |-> FALSE, content |-> x] :
      x \in { <<" ", "o", "k", "\n">>,
              <<" ">>,
              <<"B", "A", "D", "W", "O", "R", "D", "2", ".">> } }

\* c.execute / conn.commit return, or raise sqlite3.Error
DbOutcomes ==
    {"ok", "error"}

\* CURRENT_TIMESTAMP read after an earlier reading n
ClockReadings(n) ==
    { c \in {n, n + 1} : c <= MaxClock }

NoMessage ==
    [channel |-> 0, author_bot |-> FALSE, reference |-> "none",
     content |-> <<>>]

\* pc: idle, filtering (at the await of is_content_safe(reply_text)), sending
\* (suspended in channel.send or message.reply), done
\* (returned), crashed (an exception left on_message).  The other fields
\* record what the invocation did: gate_in, the verdict of the gate on the
\* user's text; branch, the completion branch taken; backend_calls and
\* messages, the calls of ChatCompletion.create and the list submitted;
\* produced, reply_text before the final filter; reply_flagged, the verdict
\* of the gate on it; appended, the entries saved; sent, the messages handed
\* to the platform; delivered, how many of them it took.
IdleTurn ==
    [pc |-> "idle", message |-> NoMessage, gate_in |-> "none",
     branch |-> "none", backend_calls |-> 0, messages |-> <<>>,
     produced |-> <<>>, reply_flagged |-> FALSE, appended |-> <<>>,
     sent |-> <<>>, delivered |-> 0]

\* the test with the author left out
is_chat_input_any_author(m) ==
    m.reference = "bot"

\* lines 332-337
is_chat_input(m) ==
    ~m.author_bot /\ m.reference = "bot"

\* the rejection with the user's text saved before the gate's verdict is used
rejected_turn_saving(m) ==
    [IdleTurn EXCEPT !.pc = "sending", !.message = m, !.gate_in = "flagged",
                     !.appended = <<[role |-> "user",
                                     content |-> m.content]>>,
                     !.sent = <<[via |-> "channel.send",
                                 text |-> REFUSE_INPUT]>>]

\* lines 340-342: the user's text is flagged
rejected_turn(m) ==
    [IdleTurn EXCEPT !.pc = "sending", !.message = m, !.gate_in = "flagged",
                     !.sent = <<[via |-> "channel.send",
                                 text |-> REFUSE_INPUT]>>]

\* the rows a turn's entries make in the table, all read at clock ts
rows_of(entries, channel_id, ts) ==
    [i \in 1..Len(entries) |->
        [channel_id |-> channel_id, role |-> entries[i].role,
         content |-> entries[i].content, created_at |-> ts]]

\* lines 351-354
build_messages(loaded, user_text) ==
    <<[role |-> "system", content |-> SYSTEM_PROMPT]>>
    \o [i \in 1..Len(loaded) |->
           [role |-> loaded[i][1], content |-> loaded[i][2]]]
    \o <<[role |-> "user", content |-> user_text]>>

\* the completion with the echo reply, not the apology, after a failed call
completion_reply_echo_on_error(configured, backend, user_text) ==
    IF configured /\ ~backend.raised
    THEN strip(backend.content)
    ELSE ECHO_PREFIX \o user_text \o ECHO_SUFFIX

\* lines 348-361: reply_text before the final filter
completion_reply(configured, backend, user_text) ==
    IF configured
    THEN IF backend.raised THEN APOLOGY ELSE strip(backend.content)
    ELSE ECHO_PREFIX \o user_text \o ECHO_SUFFIX

completion_branch(configured, backend) ==
    IF configured
    THEN IF backend.raised THEN "backend_raise" ELSE "backend_ok"
    ELSE "no_backend"

\* the final filter with the gate's verdict ignored
filter_reply_unfiltered(reply_text, safe) ==
    reply_text

\* lines 363-364
filter_reply(reply_text, safe) ==
    IF ~safe THEN REFUSE_OUTPUT ELSE reply_text

\* an await that gives control to the event loop even when the awaited
\* coroutine has nothing to wait for
suspends_at_every_await(awaited) ==
    awaited \in {"is_content_safe", "channel.send", "message.reply"}

\* The awaits of on_message at which another handler can run: those of the
\* platform calls.  The body of is_content_safe has no await of its own, and
\* its moderation call is a blocking one, so awaiting it never suspends.
suspends(awaited) ==
    awaited \in {"channel.send", "message.reply"}

\* turn t stands at the await of line 363 and has not given up control
holds_loop(t) ==
    turn[t].pc = "filtering" /\ ~suspends("is_content_safe")

\* no handler other than that of turn t is running
loop_free(t) ==
    \A u \in Turns \ {t} : ~holds_loop(u)

\* an entry of the trace: turn t saved its user row ("user") or assistant row
\* ("assistant"), called message.reply ("reply"), saw it return ("returned"),
\* or was left by an exception after its user row was saved ("raised")
did(t, what) ==
    [turn |-> t, what |-> what]

\* on_message from its start to the await of line 363 (reply_text is built),
\* or to its end when it ends before.  The awaits of process_commands (no
\* prefix command is registered) and of is_content_safe(user_text) come
\* before anything is written.
on_message(t, m) ==
    /\ turn[t].pc = "idle"
    /\ loop_free(t)
    /\ UNCHANGED <<openai_enabled, BOT_OWNER_ID, gate>>
    /\ UNCHANGED mod_vars
    /\ UNCHANGED tool_vars
    /\ IF ~is_chat_input(m)
       THEN /\ turn' = [turn EXCEPT ![t] =
                           [IdleTurn EXCEPT !.pc = "done", !.message = m]]
            /\ UNCHANGED <<history, now, trace>>
       ELSE \E svc1 \in ServiceOutcomes :
            LET user_text == m.content
                g1 == is_content_safe(user_text, openai_enabled, svc1)
            IN
            IF ~g1.safe
            THEN /\ turn' = [turn EXCEPT ![t] = rejected_turn(m)]
                 /\ history' = history \o rows_of(rejected_turn(m).appended,
                                                  m.channel, now)
                 /\ now' = now
                 /\ trace' = trace
            ELSE
            \E db1 \in DbOutcomes, ts1 \in ClockReadings(now) :
            LET acc == [IdleTurn EXCEPT !.message = m, !.gate_in = "safe"]
            IN
            IF db1 = "error"
            THEN /\ turn' = [turn EXCEPT ![t] = [acc EXCEPT !.pc = "crashed"]]
                 /\ UNCHANGED <<history, now, trace>>
            ELSE
            LET h1 == save_message_to_history(history, m.channel, "user",
                                              user_text, ts1)
            IN
            \E backend \in BackendOutcomes,
               loaded_rows \in load_history_for_channel(h1, m.channel,
                                                        HISTORY_LIMIT) :
            LET reply_text == completion_reply(openai_enabled, backend,
                                               user_text)
            IN
            /\ history' = h1
            /\ now' = ts1
            /\ trace' = Append(trace, did(t, "user"))
            /\ turn' = [turn EXCEPT ![t] =
                  [acc EXCEPT
                     !.pc = "filtering",
                     !.branch = completion_branch(openai_enabled, backend),
                     !.backend_calls = IF openai_enabled THEN 1 ELSE 0,
                     !.messages = IF openai_enabled
                                  THEN build_messages(loaded_rows, user_text)
                                  ELSE <<>>,
                     !.produced = reply_text,
                     !.appended = <<[role |-> "user",
                                     content |-> user_text]>>]]

\* on_message from the await of line 363 to its suspension in message.reply
on_message_reply(t) ==
    /\ turn[t].pc = "filtering"
    /\ loop_free(t)
    /\ UNCHANGED <<openai_enabled, BOT_OWNER_ID, gate>>
    /\ UNCHANGED mod_vars
    /\ UNCHANGED tool_vars
    /\ \E svc2 \in ServiceOutcomes :
       LET reply_text == turn[t].produced
           g2 == is_content_safe(reply_text, openai_enabled, svc2)
           final == filter_reply(reply_text, g2.safe)
       IN
       \E db2 \in DbOutcomes, ts2 \in ClockReadings(now) :
       IF db2 = "error"
       THEN /\ turn' = [turn EXCEPT ![t].pc = "crashed",
                                    ![t].reply_flagged = ~g2.safe]
            /\ UNCHANGED <<history, now>>
            /\ trace' = Append(trace, did(t, "raised"))
       ELSE /\ history' = save_message_to_history(
                              history, turn[t].message.channel, "assistant",
                              final, ts2)
            /\ now' = ts2
            /\ trace' = trace \o <<did(t, "assistant"), did(t, "reply")>>
            /\ turn' = [turn EXCEPT
                          ![t].pc = "sending",
                          ![t].reply_flagged = ~g2.safe,
                          ![t].appended = Append(@, [role |-> "assistant",
                                                     content |-> final]),
                          ![t].sent = <<[via |-> "message.reply",
                                         text |-> final]>>]

\* The suspended channel.send / message.reply returns (the platform took
\* the message) or raises; the platform refuses an empty message.
send_returns(t, ok) ==
    /\ turn[t].pc = "sending"
    /\ loop_free(t)
    /\ ok => turn[t].sent[1].text # <<>>
    /\ turn' = [turn EXCEPT ![t].pc = IF ok THEN "done" ELSE "crashed",
                            ![t].delivered = IF ok THEN 1 ELSE 0]
    /\ trace' = IF turn[t].sent[1].via = "message.reply"
                THEN Append(trace, did(t, IF ok THEN "returned" ELSE "raised"))
                ELSE trace
    /\ UNCHANGED <<openai_enabled, BOT_OWNER_ID, gate, history, now>>
    /\ UNCHANGED mod_vars
    /\ UNCHANGED tool_vars

----------------------------------------------------------------------------
(* Moderation commands: cmd_kick, cmd_ban, cmd_timeout.                    *)
(* A message is the sequence of the pieces its f-string joins.             *)

MAX_TIMEOUT_MINUTES ==
    40320

MaxInvocations ==
    1

Commands ==
    {"kick", "ban", "timeout"}

Permissions ==
    {"kick_members", "ban_members", "moderate_members"}

UserIds ==
    {1, 2}

Members ==
    {"m1", "m2"}

\* "None" stands for Python's None
Reasons ==
    {"None", "spam"}

MinuteSamples ==
    {-1, 0, 1, MAX_TIMEOUT_MINUTES, MAX_TIMEOUT_MINUTES + 1, 50000}

\* What member.kick / member.ban / member.timeout can do: return, or raise
\* (the bot lacks the privilege, the member left, the request failed).
PlatformOutcomes ==
    {"ok", "Forbidden", "NotFound", "HTTPException"}

\* timed_out: the minutes of the timeout in force, -1 for none
FreshMember ==
    [in_guild |-> TRUE, banned |-> FALSE, timed_out |-> -1]

NoInvocation ==
    [pc |-> "idle", command |-> "kick", user_id |-> 0, perms |-> {},
     member |-> "m1", minutes |-> 0, reason |-> "None", error |-> "",
     before |-> [m \in Members |-> FreshMember]]

\* reason or "...": None and the empty text are falsy
reason_or(reason, default) ==
    IF reason \in {"None", ""} THEN default ELSE reason

make_chatgpt_confirmation(action, target, reason) ==
    LET r == reason_or(reason, "no reason provided")
    IN  <<"Sure! I'll ", action, " ", target, " immediately for **", r, "**.">>

\* the permission lookup with kick asking for the ban permission
required_permission_swapped(command) ==
    CASE command = "kick" -> "ban_members"
      [] command = "ban" -> "ban_members"
      [] command = "timeout" -> "moderate_members"

\* the guild permission each command asks for (lines 276, 291, 306)
required_permission(command) ==
    CASE command = "kick" -> "kick_members"
      [] command = "ban" -> "ban_members"
      [] command = "timeout" -> "moderate_members"

\* the negation of the condition of lines 276, 291, 306
is_authorized(command, perms, user_id, owner) ==
    ~(required_permission(command) \notin perms /\ user_id # owner)

\* the range check without its upper limit
minutes_in_range_no_upper(minutes) ==
    ~(minutes < 0)

\* the negation of the condition of line 309
minutes_in_range(minutes) ==
    ~(minutes < 0 \/ minutes > MAX_TIMEOUT_MINUTES)

\* lines 279, 294, 312: the action named in the confirmation
confirmation_action(command, minutes) ==
    IF command = "timeout"
    THEN <<"timeout for ", minutes, " minutes">>
    ELSE <<command>>

\* The first response of the handler: what interaction.response.send_message
\* is called with.
first_response(i, owner) ==
    IF ~is_authorized(i.command, i.perms, i.user_id, owner)
    THEN [kind |-> "denied", ephemeral |-> TRUE,
          text |-> <<"You don't have permission to ", i.command,
                     " members.">>]
    ELSE IF i.command = "timeout" /\ ~minutes_in_range(i.minutes)
    THEN [kind |-> "range_error", ephemeral |-> TRUE,
          text |-> <<"Minutes must be between 0 and 40320.">>]
    ELSE [kind |-> "confirmation", ephemeral |-> FALSE,
          text |-> make_chatgpt_confirmation(
                       confirmation_action(i.command, i.minutes),
                       i.member, i.reason)]

\* lines 284, 299, 318, 322
success_message(i) ==
    LET why == reason_or(i.reason, "No reason provided.")
    IN  CASE i.command = "kick" ->
               <<i.member, " has been kicked. Reason: ", why>>
          [] i.command = "ban" ->
               <<i.member, " has been banned. Reason: ", why>>
          [] i.command = "timeout" /\ i.minutes = 0 ->
               <<i.member, " timeout removed. Reason: ", why>>
          [] i.command = "timeout" /\ i.minutes # 0 ->
               <<i.member, " has been timed out for ", i.minutes,
                 " minutes. Reason: ", why>>

\* lines 286, 301, 324
failure_message(i) ==
    <<"Failed to ", i.command, " ", i.member, ": ", i.error>>

\* the platform applies member.kick / member.ban / member.timeout
apply_action(ms, i) ==
    CASE i.command = "kick" ->
           [ms EXCEPT ![i.member].in_guild = FALSE]
      [] i.command = "ban" ->
           [ms EXCEPT ![i.member].in_guild = FALSE,
                      ![i.member].banned = TRUE]
      [] i.command = "timeout" ->
           [ms EXCEPT ![i.member].timed_out =
                          IF i.minutes = 0 THEN -1 ELSE i.minutes]

\* A slash command arrives; the handler of the previous one has ended.
invoke(command, user_id, perms, member, minutes, reason) ==
    /\ inv.pc \in {"idle", "done", "crashed"}
    /\ handled < MaxInvocations
    /\ command # "timeout" => minutes = 0
    /\ handled' = handled + 1
    /\ inv' = [NoInvocation EXCEPT
                 !.pc = "respond", !.command = command,
                 !.user_id = user_id, !.perms = perms, !.member = member,
                 !.minutes = minutes, !.reason = reason, !.before = members]
    /\ events' = <<>>
    /\ UNCHANGED <<openai_enabled, BOT_OWNER_ID, gate, members>>
    /\ UNCHANGED chat_vars
    /\ UNCHANGED tool_vars

\* await interaction.response.send_message(...): lines 277, 280, 292, 295,
\* 307, 310, 313.  It returns or raises; raising ends the handler.
respond(ok) ==
    /\ inv.pc = "respond"
    /\ LET r == first_response(inv, BOT_OWNER_ID)
       IN  /\ events' = Append(events,
                  [call |-> "response.send_message", kind |-> r.kind,
                   ephemeral |-> r.ephemeral, text |-> r.text, ok |-> ok])
           /\ inv' = [inv EXCEPT !.pc =
                  IF ~ok THEN "crashed"
                  ELSE IF r.kind = "confirmation" THEN "act" ELSE "done"]
    /\ UNCHANGED <<openai_enabled, BOT_OWNER_ID, gate, members, handled>>
    /\ UNCHANGED chat_vars
    /\ UNCHANGED tool_vars

\* after asyncio.sleep(1): await member.kick / ban / timeout in the try
act(outcome) ==
    /\ inv.pc = "act"
    /\ events' = Append(events,
           [call |-> inv.command, kind |-> "action", ephemeral |-> FALSE,
            text |-> <<inv.member,
                       IF inv.command = "timeout" /\ inv.minutes = 0
                       THEN "None" ELSE inv.minutes>>,
            ok |-> outcome = "ok"])
    /\ IF outcome = "ok"
       THEN /\ members' = apply_action(members, inv)
            /\ inv' = [inv EXCEPT !.pc = "report_success"]
       ELSE /\ members' = members
            /\ inv' = [inv EXCEPT !.pc = "report_failure",
                                  !.error = outcome]
    /\ UNCHANGED <<openai_enabled, BOT_OWNER_ID, gate, handled>>
    /\ UNCHANGED chat_vars
    /\ UNCHANGED tool_vars

\* await interaction.channel.send(success) in the try: lines 284, 299, 318,
\* 322.  If it raises, the except clause of the same try takes over.
report_success(ok) ==
    /\ inv.pc = "report_success"
    /\ events' = Append(events,
           [call |-> "channel.send", kind |-> "success",
            ephemeral |-> FALSE, text |-> success_message(inv), ok |-> ok])
    /\ inv' = IF ok
              THEN [inv EXCEPT !.pc = "done"]
              ELSE [inv EXCEPT !.pc = "report_failure",
                               !.error = "HTTPException"]
    /\ UNCHANGED <<openai_enabled, BOT_OWNER_ID, gate, members, handled>>
    /\ UNCHANGED chat_vars
    /\ UNCHANGED tool_vars

\* await interaction.channel.send(failure) in the except clause: lines 286,
\* 301, 324.  If it raises, the exception leaves the handler.
report_failure(ok) ==
    /\ inv.pc = "report_failure"
    /\ events' = Append(events,
           [call |-> "channel.send", kind |-> "failure",
            ephemeral |-> FALSE, text |-> failure_message(inv), ok |-> ok])
    /\ inv' = [inv EXCEPT !.pc = IF ok THEN "done" ELSE "crashed"]
    /\ UNCHANGED <<openai_enabled, BOT_OWNER_ID, gate, members, handled>>
    /\ UNCHANGED chat_vars
    /\ UNCHANGED tool_vars

----------------------------------------------------------------------------
(* Text repair: run_language_tool_check.                                   *)

\* [?.!,] of line 118
PUNCTUATION ==
    {"?", ".", "!", ","}

\* [.?!] of line 120
SENTENCE_END ==
    {".", "?", "!"}

UPPER_OF ==
    [ch \in Range(LOWER) |-> UPPER[CHOOSE i \in 1..26 : LOWER[i] = ch]]

\* the title case of one character.  U+0149 (n preceded by apostrophe) has
\* no single title-case character: Unicode maps it to U+02BC followed by N.
title_char(ch) ==
    IF ch \in DOMAIN UPPER_OF
    THEN <<UPPER_OF[ch]>>
    ELSE IF ch = "U+0149" THEN <<"U+02BC", "N">> ELSE <<ch>>

\* str.capitalize(): the first character in title case, the rest in lower
\* case
capitalize(p) ==
    IF p = <<>> THEN <<>> ELSE title_char(Head(p)) \o lower(Tail(p))

\* the first position from p on that holds no whitespace, Len(s) + 1 if none
RECURSIVE whitespace_end(_, _)
whitespace_end(s, p) ==
    IF p > Len(s) \/ s[p] \notin WHITESPACE
    THEN p
    ELSE whitespace_end(s, p + 1)

\* re.sub(r"\s+", " ", s)
RECURSIVE collapse_whitespace(_)
collapse_whitespace(s) ==
    IF s = <<>>
    THEN <<>>
    ELSE IF Head(s) \in WHITESPACE
         THEN <<" ">> \o collapse_whitespace(
                             SubSeq(s, whitespace_end(s, 1), Len(s)))
         ELSE <<Head(s)>> \o collapse_whitespace(Tail(s))

\* re.sub(r"\s+([?.!,])", r"\1", s)
RECURSIVE unspace_punctuation(_)
unspace_punctuation(s) ==
    IF s = <<>>
    THEN <<>>
    ELSE LET q == whitespace_end(s, 1)
         IN  IF q > 1 /\ q <= Len(s) /\ s[q] \in PUNCTUATION
             THEN <<s[q]>> \o unspace_punctuation(SubSeq(s, q + 1, Len(s)))
             ELSE <<Head(s)>> \o unspace_punctuation(Tail(s))

\* re.split("([.?!]\s+)", s): the texts between the separators and the
\* separators themselves, in order
RECURSIVE split_sentences(_)
split_sentences(s) ==
    LET seps == { p \in 1..(Len(s) - 1) :
                  s[p] \in SENTENCE_END /\ s[p + 1] \in WHITESPACE }
    IN  IF seps = {}
        THEN <<s>>
        ELSE LET p == CHOOSE x \in seps : \A y \in seps : x <= y
                 q == whitespace_end(s, p + 1)
             IN  <<SubSeq(s, 1, p - 1), SubSeq(s, p, q - 1)>>
                 \o split_sentences(SubSeq(s, q, Len(s)))

\* "".join(p.capitalize() for p in parts)
RECURSIVE join_capitalized(_)
join_capitalized(parts) ==
    IF parts = <<>>
    THEN <<>>
    ELSE capitalize(Head(parts)) \o join_capitalized(Tail(parts))

\* lines 117-122
fallback_repair(text) ==
    join_capitalized(split_sentences(
        unspace_punctuation(strip(collapse_whitespace(text)))))

\* what LanguageTool can return as the corrected text
EngineTexts ==
    { <<"O", "k", ".">> }

\* language_tool_python is not installed, LanguageTool raises, or it
\* returns its correction
EngineOutcomes ==
    { [kind |-> "absent", new_text |-> <<>>],
      [kind |-> "raises", new_text |-> <<>>] } \cup
    { [kind |-> "returns", new_text |-> x] : x \in EngineTexts }

\* lines 102-122
run_language_tool_check(text, engine) ==
    IF engine.kind = "returns" THEN engine.new_text ELSE fallback_repair(text)

MaxRepairLen ==
    4

RepairChars ==
    {"a", "B", " ", "\n", ".", ",", "U+0149"}

RECURSIVE CharTextsUpTo(_, _)
CharTextsUpTo(chars, n) ==
    IF n = 0
    THEN {<<>>}
    ELSE LET shorter == CharTextsUpTo(chars, n - 1)
         IN  shorter \cup { Append(x, ch) : x \in shorter, ch \in chars }

RepairTexts ==
    CharTextsUpTo(RepairChars, MaxRepairLen)

\* runs: how many times the transform was applied; text: the first input;
\* out: the first result; again: the result of applying it to out;
\* fallback: every run so far took the fallback
NoRepair ==
    [runs |-> 0, text |-> <<>>, out |-> <<>>, again |-> <<>>,
     fallback |-> TRUE]

\* run_language_tool_check(text)
repair_run(text, engine) ==
    /\ repair.runs = 0
    /\ repair' = [repair EXCEPT
                     !.runs = 1, !.text = text,
                     !.out = run_language_tool_check(text, engine),
                     !.fallback = engine.kind # "returns"]
    /\ UNCHANGED <<openai_enabled, BOT_OWNER_ID, gate, load_call, edit>>
    /\ UNCHANGED chat_vars
    /\ UNCHANGED mod_vars

\* run_language_tool_check applied to its own result
repair_rerun(engine) ==
    /\ repair.runs = 1
    /\ repair' = [repair EXCEPT
                     !.runs = 2,
                     !.again = run_language_tool_check(repair.out, engine),
                     !.fallback = @ /\ engine.kind # "returns"]
    /\ UNCHANGED <<openai_enabled, BOT_OWNER_ID, gate, load_call, edit>>
    /\ UNCHANGED chat_vars
    /\ UNCHANGED mod_vars

----------------------------------------------------------------------------
(* Target resolution: fetch_message_from_identifier.                       *)

\* history(limit=10) of line 157
SCAN_LIMIT ==
    10

MaxLeadingBots ==
    11

\* interaction.channel
CURRENT_CHANNEL ==
    1

DIGIT_VALUE ==
    [ch \in DIGITS |->
        CHOOSE n \in 0..9 :
            <<"0", "1", "2", "3", "4", "5", "6", "7", "8", "9">>[n + 1] = ch]

\* the characters str.isdigit() accepts: the decimal digits and digit-like
\* characters such as superscript two, which int() does not take
ISDIGIT_CHARS ==
    DIGITS \cup {"U+00B2"}

\* a test that takes letters where the identifier test takes digits
isalpha(s) ==
    s # <<>> /\ \A i \in 1..Len(s) : s[i] \in (Range(UPPER) \cup Range(LOWER))

\* str.isdigit()
isdigit(s) ==
    s # <<>> /\ \A i \in 1..Len(s) : s[i] \in ISDIGIT_CHARS

\* int(s) raises ValueError
int_raises(s) ==
    s = <<>> \/ \E i \in 1..Len(s) : s[i] \notin DIGITS

\* int(s) of a string of decimal digits
RECURSIVE int_of(_)
int_of(s) ==
    IF s = <<>>
    THEN 0
    ELSE 10 * int_of(SubSeq(s, 1, Len(s) - 1)) + DIGIT_VALUE[s[Len(s)]]

CHANNELS_SLASH ==
    <<"c", "h", "a", "n", "n", "e", "l", "s", "/">>

starts_with(s, p, w) ==
    /\ p + Len(w) - 1 <= Len(s)
    /\ \A i \in 1..Len(w) : s[p + i - 1] = w[i]

\* the first position from p on that holds no decimal digit
RECURSIVE digits_end(_, _)
digits_end(s, p) ==
    IF p > Len(s) \/ s[p] \notin DIGITS THEN p ELSE digits_end(s, p + 1)

\* channels/(\d+)/(\d+)/(\d+) matched at position p of s: each group takes
\* the whole run of digits it stands on
link_at(s, p) ==
    LET a == p + Len(CHANNELS_SLASH)
        b == digits_end(s, a)
        c == digits_end(s, b + 1)
        d == digits_end(s, c + 1)
    IN  [matched |-> /\ starts_with(s, p, CHANNELS_SLASH)
                     /\ b > a /\ b <= Len(s) /\ s[b] = "/"
                     /\ c > b + 1 /\ c <= Len(s) /\ s[c] = "/"
                     /\ d > c + 1,
         group2 |-> SubSeq(s, b + 1, c - 1),
         group3 |-> SubSeq(s, c + 1, d - 1)]

\* re.search(r"channels/(\d+)/(\d+)/(\d+)", s), lines 143-146
link_match(s) ==
    LET ps == { p \in 1..Len(s) : link_at(s, p).matched }
    IN  IF ps = {}
        THEN [matched |-> FALSE, ch_id |-> 0, msg_id |-> 0]
        ELSE LET p == CHOOSE x \in ps : \A y \in ps : x <= y
             IN  [matched |-> TRUE,
                  ch_id |-> int_of(link_at(s, p).group2),
                  msg_id |-> int_of(link_at(s, p).group3)]

NoTargetMessage ==
    [id |-> 0, channel_id |-> 0, author_bot |-> FALSE, content |-> <<>>]

\* the messages of the guild: recent, those of the current channel, newest
\* first; elsewhere, those of the other channels
all_messages(world) ==
    Range(world.recent) \cup world.elsewhere

\* channel.fetch_message(id): the message, none when the platform has none
fetch_message(world, channel_id, id) ==
    { m \in all_messages(world) : m.channel_id = channel_id /\ m.id = id }

\* the scan that returns the first message whoever wrote it
first_non_bot_any_author(window) ==
    { i \in 1..Len(window) : i = 1 }

\* lines 157-160: the positions of window the scan can return, the first one
\* whose author is not a bot
first_non_bot(window) ==
    { i \in 1..Len(window) :
        /\ ~window[i].author_bot
        /\ \A j \in 1..(i - 1) : window[j].author_bot }

\* lines 125-163.  net tells which platform calls go through (the others
\* raise); steps lists the lookups made, in order.
fetch_message_from_identifier(identifier, world, net) ==
    LET text == identifier.text
        given == identifier.given /\ text # <<>>
        numeric == given /\ isdigit(text) /\ ~int_raises(text)
        by_id == IF numeric /\ net.by_id
                 THEN fetch_message(world, CURRENT_CHANNEL, int_of(text))
                 ELSE {}
        link == IF given /\ by_id = {}
                THEN link_match(text)
                ELSE [matched |-> FALSE, ch_id |-> 0, msg_id |-> 0]
        by_link == IF link.matched /\ net.by_link
                   THEN fetch_message(world, link.ch_id, link.msg_id)
                   ELSE {}
        n == IF Len(world.recent) < SCAN_LIMIT
             THEN Len(world.recent)
             ELSE SCAN_LIMIT
        window == SubSeq(world.recent, 1, n)
        hits == IF net.scan THEN first_non_bot(window) ELSE {}
        steps == (IF numeric THEN <<"by_id">> ELSE <<>>)
                 \o (IF link.matched THEN <<"by_link">> ELSE <<>>)
                 \o (IF by_id = {} /\ by_link = {} THEN <<"scan">> ELSE <<>>)
    IN  IF by_id # {}
        THEN [found |-> TRUE, msg |-> CHOOSE m \in by_id : TRUE,
              steps |-> steps]
        ELSE IF by_link # {}
        THEN [found |-> TRUE, msg |-> CHOOSE m \in by_link : TRUE,
              steps |-> steps]
        ELSE IF hits # {}
        THEN [found |-> TRUE, msg |-> window[CHOOSE i \in hits : TRUE],
              steps |-> steps]
        ELSE [found |-> FALSE, msg |-> NoTargetMessage, steps |-> steps]

----------------------------------------------------------------------------
(* Text repair requests: context_edit, slash_edit, context_edit_article,   *)
(* slash_edit_article.                                                     *)

EditCommands ==
    {"edit", "editarticle"}

DisplayNames ==
    {"ann"}

TargetTexts ==
    { <<"h", "i", " ", " ", "u", " ", ".">>,
      <<"B", "a", "d", "w", "o", "r", "d", "1">> }

\* message_identifier: None, or a string
Identifiers ==
    { [given |-> FALSE, text |-> <<>>] } \cup
    { [given |-> TRUE, text |-> x] :
      x \in { <<>>,
              <<"5">>,
              <<"6">>,
              <<"9">>,
              <<"U+00B2">>,
              <<"x", "5">>,
              <<"c", "h", "a", "n", "n", "e", "l", "s", "/", "1", "/", "2",
                "/", "1", "2">>,
              <<"c", "h", "a", "n", "n", "e", "l", "s", "/", "1", "/", "2",
                "/", "9">>,
              <<"h", "t", "t", "p", "s", ":", "/", "/", "d", "i", "s", "c",
                "o", "r", "d", ".", "c", "o", "m", "/", "c", "h", "a", "n",
                "n", "e", "l", "s", "/", "1", "/", "1", "/", "6">> } }

\* k messages of bots, newest first
leading_bots(k) ==
    [i \in 1..k |-> [id |-> 20 + i, channel_id |-> CURRENT_CHANNEL,
                     author_bot |-> TRUE, content |-> <<"o", "k">>]]

\* A scene tells what the guild holds when the command arrives: the current
\* channel holds leading messages of bots and, older than them, message 5 of
\* a user followed by message 6 of a bot (has_user) or nothing.
Scenes ==
    { [leading |-> k, has_user |-> FALSE, content |-> <<>>] :
      k \in 0..MaxLeadingBots } \cup
    { [leading |-> k, has_user |-> TRUE, content |-> x] :
      k \in 0..MaxLeadingBots, x \in TargetTexts }

NoScene ==
    [leading |-> 0, has_user |-> FALSE, content |-> <<>>]

\* The messages of the guild in a scene: recent, those of the current
\* channel, newest first; elsewhere, those of the other channels (channel 2
\* holds message 12 of a user).
world_of(scene) ==
    [recent |->
        leading_bots(scene.leading)
        \o (IF scene.has_user
            THEN <<[id |-> 5, channel_id |-> CURRENT_CHANNEL,
                    author_bot |-> FALSE, content |-> scene.content],
                   [id |-> 6, channel_id |-> CURRENT_CHANNEL,
                    author_bot |-> TRUE, content |-> <<"o", "k">>]>>
            ELSE <<>>),
     elsewhere |-> {[id |-> 12, channel_id |-> 2, author_bot |-> FALSE,
                     content |-> <<"h", "i", " ", " ", "u", " ", ".">>]}]

\* the message a context menu command is invoked on
MenuTargets ==
    { [id |-> 5, channel_id |-> CURRENT_CHANNEL, author_bot |-> b,
       content |-> x] : b \in BOOLEAN, x \in TargetTexts }

\* which of the platform calls of the resolver go through
NetOutcomes ==
    [by_id : BOOLEAN, by_link : BOOLEAN, scan : BOOLEAN]

\* lines 192, 224
not_found_message(command) ==
    IF command = "edit"
    THEN <<"Couldn't find the target message. You can use the message context menu (right-click message -> Apps -> Edit message (AI)) or provide a message link/ID.">>
    ELSE <<"Couldn't find the target message. Use the message context menu or provide a message link/ID.">>

\* lines 174, 198, 212, 230
unsafe_message(menu) ==
    IF menu
    THEN <<"The message contains disallowed content and cannot be edited.">>
    ELSE <<"The target message contains disallowed content and cannot be edited.">>

\* lines 180, 201, 215, 233
acknowledgment(command) ==
    IF command = "edit"
    THEN <<"Sure! I'll edit that message for typos and grammar and post the improved version below.">>
    ELSE <<"I'll rewrite the article for clarity, flow, and grammar and post it below.">>

\* lines 183, 202, 216, 234: the heading, then a newline and the repaired
\* text (body)
corrected_post(command, display_name, repaired) ==
    [kind |-> "corrected", via |-> "channel.send",
     text |-> IF command = "edit"
              THEN <<"**Edited (by ", display_name, "):**">>
              ELSE <<"**Article rewrite (by ", display_name, "):**">>,
     body |-> repaired]

followup(kind, text) ==
    [kind |-> kind, via |-> "followup.send", text |-> text, body |-> <<>>]

\* the first response with no test of the target's author
first_followup_editing_bots(command, menu, found, msg, safe) ==
    IF ~found
    THEN followup("not_found", not_found_message(command))
    ELSE IF ~safe
    THEN followup("unsafe", unsafe_message(menu))
    ELSE followup("ack", acknowledgment(command))

\* The message the handler hands to followup.send first: a rejection, or
\* the acknowledgment (lines 169-181, 191-201, 208-215, 223-233).
first_followup(command, menu, found, msg, safe) ==
    IF ~found
    THEN followup("not_found", not_found_message(command))
    ELSE IF msg.author_bot
    THEN followup("bot_target", <<"I won't edit bot messages.">>)
    ELSE IF ~safe
    THEN followup("unsafe", unsafe_message(menu))
    ELSE followup("ack", acknowledgment(command))

\* pc: idle, responding (suspended in the followup.send of a rejection),
\* acknowledging (suspended in the followup.send of the acknowledgment),
\* posting (suspended in channel.send), done, crashed (an exception left
\* the handler).  found, target, steps: what the resolver returned; flagged:
\* the gate's verdict on the target's text; out: the messages handed to the
\* platform, in order.
NoEdit ==
    [pc |-> "idle", command |-> "none", menu |-> FALSE, user |-> "none",
     identifier |-> [given |-> FALSE, text |-> <<>>], scene |-> NoScene,
     net |-> [by_id |-> FALSE, by_link |-> FALSE, scan |-> FALSE],
     found |-> FALSE, target |-> NoTargetMessage, steps |-> <<>>,
     flagged |-> FALSE, repaired |-> <<>>, out |-> <<>>]

\* the handler suspended in its first followup.send
edit_responding(started, r, safe, repaired) ==
    LET first == first_followup(started.command, started.menu, r.found,
                                r.msg, safe)
    IN  [started EXCEPT
           !.pc = IF first.kind = "ack" THEN "acknowledging"
                                        ELSE "responding",
           !.found = r.found, !.target = r.msg, !.steps = r.steps,
           !.flagged = ~safe,
           !.repaired = IF first.kind = "ack" THEN repaired ELSE <<>>,
           !.out = <<first>>]

\* A handler from the test of its target r to its suspension in the first
\* followup.send: the states it can reach, one for each verdict of the
\* moderation service and each outcome of the grammar engine it meets.
edit_target(started, r) ==
    IF ~r.found \/ r.msg.author_bot
    THEN { edit_responding(started, r, TRUE, <<>>) }
    ELSE UNION {
           LET safe == is_content_safe(r.msg.content, openai_enabled,
                                       service).safe
           IN  IF ~safe
               THEN { edit_responding(started, r, FALSE, <<>>) }
               ELSE { edit_responding(
                          started, r, TRUE,
                          run_language_tool_check(r.msg.content, engine)) :
                      engine \in EngineOutcomes } :
           service \in ServiceOutcomes }

\* context_edit, context_edit_article: the platform hands over the message
\* the menu was opened on.  defer raises, or the handler runs to its first
\* followup.send.
context_edit(command, user, message, defer_ok) ==
    /\ edit.pc = "idle"
    /\ LET started == [NoEdit EXCEPT !.command = command, !.menu = TRUE,
                                     !.user = user]
           r == [found |-> TRUE, msg |-> message, steps |-> <<>>]
       IN  IF ~defer_ok
           THEN edit' = [started EXCEPT !.pc = "crashed", !.target = message,
                                        !.found = TRUE]
           ELSE edit' \in edit_target(started, r)
    /\ UNCHANGED <<openai_enabled, BOT_OWNER_ID, gate, load_call, repair>>
    /\ UNCHANGED chat_vars
    /\ UNCHANGED mod_vars

\* slash_edit, slash_edit_article: the target is resolved from
\* message_identifier in the guild of the scene.
slash_edit(command, user, identifier, scene, net, defer_ok) ==
    /\ edit.pc = "idle"
    /\ LET started == [NoEdit EXCEPT !.command = command, !.menu = FALSE,
                                     !.user = user,
                                     !.identifier = identifier,
                                     !.scene = scene, !.net = net]
           r == fetch_message_from_identifier(identifier, world_of(scene),
                                              net)
       IN  IF ~defer_ok
           THEN edit' = [started EXCEPT !.pc = "crashed"]
           ELSE edit' \in edit_target(started, r)
    /\ UNCHANGED <<openai_enabled, BOT_OWNER_ID, gate, load_call, repair>>
    /\ UNCHANGED chat_vars
    /\ UNCHANGED mod_vars

\* the followup.send of a rejection returns or raises
edit_respond_returns(ok) ==
    /\ edit.pc = "responding"
    /\ edit' = [edit EXCEPT !.pc = IF ok THEN "done" ELSE "crashed"]
    /\ UNCHANGED <<openai_enabled, BOT_OWNER_ID, gate, load_call, repair>>
    /\ UNCHANGED chat_vars
    /\ UNCHANGED mod_vars

\* the followup.send of the acknowledgment returns, and the handler goes on
\* to channel.send, or raises
edit_ack_returns(ok) ==
    /\ edit.pc = "acknowledging"
    /\ edit' = IF ok
               THEN [edit EXCEPT
                       !.pc = "posting",
                       !.out = Append(@, corrected_post(edit.command,
                                                        edit.user,
                                                        edit.repaired))]
               ELSE [edit EXCEPT !.pc = "crashed"]
    /\ UNCHANGED <<openai_enabled, BOT_OWNER_ID, gate, load_call, repair>>
    /\ UNCHANGED chat_vars
    /\ UNCHANGED mod_vars

\* channel.send returns or raises
edit_post_returns(ok) ==
    /\ edit.pc = "posting"
    /\ edit' = [edit EXCEPT !.pc = IF ok THEN "done" ELSE "crashed"]
    /\ UNCHANGED <<openai_enabled, BOT_OWNER_ID, gate, load_call, repair>>
    /\ UNCHANGED chat_vars
    /\ UNCHANGED mod_vars

----------------------------------------------------------------------------
(* The history store on its own: rows are appended, then a window is read. *)

MaxRows ==
    3

MaxLimit ==
    2

Roles ==
    {"user", "assistant"}

RowContents ==
    { <<"a">>, <<"b">> }

NoLoad ==
    [called |-> FALSE, channel_id |-> 0, limit |-> 0, rows |-> <<>>]

\* save_message_to_history(channel_id, role, content) at clock reading ts
store_append(channel_id, role, content, ts) ==
    /\ ~load_call.called
    /\ Len(history) < MaxRows
    /\ history' = save_message_to_history(history, channel_id, role, content,
                                          ts)
    /\ now' = ts
    /\ UNCHANGED <<openai_enabled, BOT_OWNER_ID, gate, turn, trace>>
    /\ UNCHANGED mod_vars
    /\ UNCHANGED tool_vars

\* load_history_for_channel(channel_id, limit) and the rows it returned
store_load(channel_id, limit) ==
    /\ ~load_call.called
    /\ \E rows \in load_history_for_channel(history, channel_id, limit) :
          load_call' = [called |-> TRUE, channel_id |-> channel_id,
                     limit |-> limit, rows |-> rows]
    /\ UNCHANGED <<openai_enabled, BOT_OWNER_ID, gate, edit, repair>>
    /\ UNCHANGED chat_vars
    /\ UNCHANGED mod_vars

----------------------------------------------------------------------------
(* Specifications.                                                         *)

ChatIdle ==
    /\ history = <<>>
    /\ now = 0
    /\ turn = [t \in Turns |-> IdleTurn]
    /\ trace = <<>>

ModIdle ==
    /\ members = [m \in Members |-> FreshMember]
    /\ inv = NoInvocation
    /\ events = <<>>
    /\ handled = 0

ToolIdle ==
    /\ load_call = NoLoad
    /\ edit = NoEdit
    /\ repair = NoRepair

InitGate ==
    /\ openai_enabled \in BOOLEAN
    /\ BOT_OWNER_ID = 0
    /\ gate = GateIdle
    /\ ChatIdle
    /\ ModIdle
    /\ ToolIdle

NextGate ==
    \E text \in GateTexts, service \in ServiceOutcomes :
        GateCheck(text, service)

SpecGate ==
    InitGate /\ [][NextGate]_vars

InitChat ==
    /\ openai_enabled \in BOOLEAN
    /\ BOT_OWNER_ID = 0
    /\ gate = GateIdle
    /\ ChatIdle
    /\ ModIdle
    /\ ToolIdle

NextChat ==
    \/ \E t \in Turns, m \in Messages : on_message(t, m)
    \/ \E t \in Turns : on_message_reply(t)
    \/ \E t \in Turns, ok \in BOOLEAN : send_returns(t, ok)

SpecChat ==
    InitChat /\ [][NextChat]_vars

InitMod ==
    /\ openai_enabled = FALSE
    /\ BOT_OWNER_ID \in {0, 1}
    /\ gate = GateIdle
    /\ ChatIdle
    /\ ModIdle
    /\ ToolIdle

NextMod ==
    \/ \E command \in Commands, user_id \in UserIds,
          perms \in SUBSET Permissions, member \in Members,
          minutes \in MinuteSamples, reason \in Reasons :
          invoke(command, user_id, perms, member, minutes, reason)
    \/ \E ok \in BOOLEAN : respond(ok)
    \/ \E outcome \in PlatformOutcomes : act(outcome)
    \/ \E ok \in BOOLEAN : report_success(ok)
    \/ \E ok \in BOOLEAN : report_failure(ok)

SpecMod ==
    InitMod /\ [][NextMod]_vars

InitEdit ==
    /\ openai_enabled \in BOOLEAN
    /\ BOT_OWNER_ID = 0
    /\ gate = GateIdle
    /\ ChatIdle
    /\ ModIdle
    /\ ToolIdle

NextEdit ==
    \/ /\ edit.pc = "idle"
       /\ \E command \in EditCommands, user \in DisplayNames,
             message \in MenuTargets, defer_ok \in BOOLEAN :
             context_edit(command, user, message, defer_ok)
    \/ /\ edit.pc = "idle"
       /\ \E command \in EditCommands, user \in DisplayNames,
             identifier \in Identifiers, scene \in Scenes,
             net \in NetOutcomes, defer_ok \in BOOLEAN :
             slash_edit(command, user, identifier, scene, net, defer_ok)
    \/ \E ok \in BOOLEAN : edit_respond_returns(ok)
    \/ \E ok \in BOOLEAN : edit_ack_returns(ok)
    \/ \E ok \in BOOLEAN : edit_post_returns(ok)

SpecEdit ==
    InitEdit /\ [][NextEdit]_vars

InitRepair ==
    /\ openai_enabled = FALSE
    /\ BOT_OWNER_ID = 0
    /\ gate = GateIdle
    /\ ChatIdle
    /\ ModIdle
    /\ ToolIdle

NextRepair ==
    \/ \E text \in RepairTexts, engine \in EngineOutcomes :
          repair_run(text, engine)
    \/ \E engine \in EngineOutcomes : repair_rerun(engine)

SpecRepair ==
    InitRepair /\ [][NextRepair]_vars

InitHistory ==
    /\ openai_enabled = FALSE
    /\ BOT_OWNER_ID = 0
    /\ gate = GateIdle
    /\ ChatIdle
    /\ ModIdle
    /\ ToolIdle

NextHistory ==
    \/ \E channel_id \in Channels, role \in Roles, content \in RowContents,
          ts \in ClockReadings(now) :
          store_append(channel_id, role, content, ts)
    \/ \E channel_id \in Channels, limit \in 1..MaxLimit :
          store_load(channel_id, limit)

SpecHistory ==
    InitHistory /\ [][NextHistory]_vars

----------------------------------------------------------------------------
(* Properties of the chat turn handler, checked under SpecChat.            *)

\* on_message has run its synchronous part for turn t
Ran(t) ==
    turn[t].pc # "idle"

\* turn t is an accepted chat turn: a message of a non-bot author replying
\* to a message of the bot, whose text passed the gate
Accepted(t) ==
    /\ Ran(t)
    /\ ~turn[t].message.author_bot
    /\ turn[t].message.reference = "bot"
    /\ turn[t].gate_in = "safe"

\* the contents of the entries of a role that turn t appended
ContentsOf(t, role) ==
    { turn[t].appended[i].content :
      i \in { j \in 1..Len(turn[t].appended) :
              turn[t].appended[j].role = role } }

\* the texts turn t handed to message.reply
Replies(t) ==
    { turn[t].sent[i].text :
      i \in { j \in 1..Len(turn[t].sent) :
              turn[t].sent[j].via = "message.reply" } }

\* C1: every accepted chat turn appends exactly one user entry and then one
\* assistant entry to the history of its channel and hands a non-empty reply
\* to message.reply, whichever completion branch is taken.  Stated of the
\* turns in which no exception left on_message before message.reply.
C1_AcceptedTurnPersistsAndReplies ==
    \A t \in Turns :
        Accepted(t) /\ turn[t].pc \in {"sending", "done"} =>
            /\ Len(turn[t].appended) = 2
            /\ turn[t].appended[1] =
                   [role |-> "user", content |-> turn[t].message.content]
            /\ turn[t].appended[2].role = "assistant"
            /\ Len(turn[t].sent) = 1
            /\ turn[t].sent[1].via = "message.reply"
            /\ turn[t].sent[1].text # <<>>

\* C2: when the gate flags the user's text of a reply-to-bot message, the
\* handler's only output is the fixed refusal handed to channel.send: it
\* appends no entry, calls no completion backend, and the step leaves the
\* history of every channel as it was.
C2_FlaggedInputRejected ==
    /\ [](\A t \in Turns :
            turn[t].gate_in = "flagged" =>
                /\ turn[t].appended = <<>>
                /\ turn[t].backend_calls = 0
                /\ turn[t].messages = <<>>
                /\ turn[t].sent = <<[via |-> "channel.send",
                                     text |-> REFUSE_INPUT]>>)
    /\ [][\A t \in Turns :
            turn[t].pc = "idle" /\ turn'[t].gate_in = "flagged" =>
                history' = history]_vars

C2_Witness ==
    \E t \in Turns, u \in Turns :
        /\ turn[t].gate_in = "flagged"
        /\ turn[t].pc = "done"
        /\ turn[t].delivered = 1
        /\ ~contains_profanity(turn[t].message.content)
        /\ u # t
        /\ turn[u].gate_in = "flagged"
        /\ contains_profanity(turn[u].message.content)
        /\ history = <<>>

\* C3: in a turn that reaches message.reply, the text handed to it is the
\* content of the one assistant entry the turn persisted, and when the gate
\* flags the produced reply text both are the fixed refusal message.
C3_SentEqualsPersisted ==
    \A t \in Turns :
        /\ Replies(t) # {} =>
               /\ Replies(t) = ContentsOf(t, "assistant")
               /\ Cardinality(Replies(t)) = 1
        /\ turn[t].reply_flagged =>
               /\ ContentsOf(t, "assistant") \subseteq {REFUSE_OUTPUT}
               /\ Replies(t) \subseteq {REFUSE_OUTPUT}

C3_Witness ==
    \E t \in Turns :
        /\ turn[t].reply_flagged
        /\ contains_profanity(turn[t].produced)
        /\ turn[t].pc = "done"
        /\ turn[t].delivered = 1
        /\ Replies(t) = {REFUSE_OUTPUT}
        /\ ContentsOf(t, "assistant") = {REFUSE_OUTPUT}
        /\ \E i \in 1..Len(history) :
               /\ history[i].role = "assistant"
               /\ history[i].content = REFUSE_OUTPUT

\* C4, as claimed: when the backend is configured and its call raises, the
\* reply sent and the assistant entry persisted are the apology string.
C4_BackendErrorGivesApology ==
    \A t \in Turns :
        turn[t].branch = "backend_raise" /\ turn[t].pc \in {"sending", "done"}
        => /\ Replies(t) = {APOLOGY}
           /\ ContentsOf(t, "assistant") = {APOLOGY}

\* C4, amended: when the backend is configured and its call raises,
\* reply_text is the apology string; every reply sent and every assistant
\* entry persisted by the turn is that string, or the fixed refusal message
\* when the gate, run again on the apology, flags it; a turn that reaches
\* message.reply has sent and persisted exactly that one text.
C4_BackendErrorGivesApologyUnlessFlagged ==
    \A t \in Turns :
        turn[t].branch = "backend_raise" =>
            LET expected == IF turn[t].reply_flagged
                            THEN REFUSE_OUTPUT ELSE APOLOGY
            IN  /\ openai_enabled
                /\ turn[t].produced = APOLOGY
                /\ Replies(t) \subseteq {expected}
                /\ ContentsOf(t, "assistant") \subseteq {expected}
                /\ turn[t].pc \in {"sending", "done"} =>
                       /\ Replies(t) = {expected}
                       /\ ContentsOf(t, "assistant") = {expected}

C4_Witness ==
    \E t \in Turns :
        /\ turn[t].branch = "backend_raise"
        /\ ~turn[t].reply_flagged
        /\ turn[t].pc = "done"
        /\ turn[t].delivered = 1
        /\ Replies(t) = {APOLOGY}
        /\ ContentsOf(t, "assistant") = {APOLOGY}

----------------------------------------------------------------------------
(* Properties of the moderation commands, checked under SpecMod.           *)

\* the invoker holds the guild permission of the command
HoldsPermission ==
    \/ inv.command = "kick" /\ "kick_members" \in inv.perms
    \/ inv.command = "ban" /\ "ban_members" \in inv.perms
    \/ inv.command = "timeout" /\ "moderate_members" \in inv.perms

Authorized ==
    HoldsPermission \/ inv.user_id = BOT_OWNER_ID

InRange ==
    inv.command = "timeout" =>
        0 <= inv.minutes /\ inv.minutes <= MAX_TIMEOUT_MINUTES

Invoked ==
    inv.pc # "idle"

Ended ==
    inv.pc \in {"done", "crashed"}

KindsOf(evs) ==
    [i \in 1..Len(evs) |-> evs[i].kind]

\* C5: for kick, ban and timeout, an invoker who lacks the command's
\* permission and is not the owner gets only the ephemeral permission-denied
\* response: no confirmation, no platform action, no member changed.
C5_UnauthorizedShortCircuits ==
    Invoked /\ ~Authorized =>
        /\ members = inv.before
        /\ inv.pc \in {"respond", "done", "crashed"}
        /\ Len(events) <= 1
        /\ Ended => Len(events) = 1
        /\ \A i \in 1..Len(events) :
               /\ events[i].call = "response.send_message"
               /\ events[i].kind = "denied"
               /\ events[i].ephemeral
               /\ events[i].text = <<"You don't have permission to ",
                                     inv.command, " members.">>

C5_Witness ==
    /\ inv.pc = "done"
    /\ inv.command = "kick"
    /\ inv.perms = {"ban_members", "moderate_members"}
    /\ inv.user_id # BOT_OWNER_ID
    /\ BOT_OWNER_ID # 0
    /\ Len(events) = 1
    /\ events[1].kind = "denied"
    /\ events[1].ok

\* C6: a timeout whose minutes lie outside [0, 40320] never gets a
\* confirmation or a platform action and changes no member; when the invoker
\* passes the permission check its only response is the range error; and
\* member.timeout is only ever attempted with 0 <= minutes <= 40320.
C6_TimeoutRangeChecked ==
    /\ \A i \in 1..Len(events) :
           events[i].call = "timeout" =>
               0 <= inv.minutes /\ inv.minutes <= 40320
    /\ Invoked /\ inv.command = "timeout"
         /\ (inv.minutes < 0 \/ inv.minutes > 40320) =>
           /\ members = inv.before
           /\ Len(events) <= 1
           /\ Ended => Len(events) = 1
           /\ \A i \in 1..Len(events) :
                  /\ events[i].call = "response.send_message"
                  /\ events[i].kind \in {"denied", "range_error"}
                  /\ Authorized =>
                         /\ events[i].kind = "range_error"
                         /\ events[i].text =
                                <<"Minutes must be between 0 and 40320.">>

C6_Witness ==
    /\ inv.pc = "done"
    /\ inv.command = "timeout"
    /\ inv.minutes = 50000
    /\ HoldsPermission
    /\ Len(events) = 1
    /\ events[1].kind = "range_error"
    /\ events[1].ok

\* C7: an authorized (for timeout, in-range) invocation emits the
\* confirmation, then attempts the action exactly once, then emits exactly
\* one result message, success or failure.  Stated of the invocations whose
\* handler returned.
C7_ConfirmActReportOnce ==
    inv.pc = "done" /\ Authorized /\ InRange =>
        /\ Len(events) = 3
        /\ events[1].kind = "confirmation"
        /\ events[2].kind = "action"
        /\ events[3].kind \in {"success", "failure"}

\* C8: a success message is emitted only if the action was applied, and a
\* failure message only if the platform rejected the action and left the
\* member as it was.
C8_ReportMatchesPlatform ==
    \A i \in 1..Len(events) :
        /\ events[i].kind = "success" =>
               \E j \in 1..(i - 1) :
                   events[j].kind = "action" /\ events[j].ok
        /\ events[i].kind = "failure" =>
               /\ \A j \in 1..(i - 1) :
                      events[j].kind = "action" => ~events[j].ok
               /\ members = inv.before

----------------------------------------------------------------------------
(* Properties of the Content Safety Gate, checked under SpecGate.          *)

\* the maximal runs of word characters of s, as pairs of positions
WordRuns(s) ==
    { r \in (1..Len(s)) \X (1..Len(s)) :
        /\ r[1] <= r[2]
        /\ \A k \in r[1]..r[2] : IsWordChar(s[k])
        /\ r[1] = 1 \/ ~IsWordChar(s[r[1] - 1])
        /\ r[2] = Len(s) \/ ~IsWordChar(s[r[2] + 1]) }

\* s has a word that is, letter case aside, a denylisted word
HasDenylistedWord(s) ==
    \E r \in WordRuns(s) :
        [i \in 1..(r[2] - r[1] + 1) |-> lower_char(s[r[1] + i - 1])]
            \in PROFANITY

\* C9: for a text with a denylisted word (whole word, any letter case),
\* is_content_safe returns false and makes no call to the moderation
\* service, configured or not.
C9_DenylistedUnsafeWithoutCall ==
    gate.called /\ HasDenylistedWord(gate.text) =>
        ~gate.safe /\ gate.calls = 0

C9_Witness ==
    /\ gate.called
    /\ openai_enabled
    /\ gate.service = "clean"
    /\ gate.text = <<"x", " ", "B", "a", "d", "W", "O", "R", "D", "2">>
    /\ ~gate.safe
    /\ gate.calls = 0

\* C10: for a text without a denylisted word, is_content_safe returns false
\* exactly when the service is configured, its call succeeds and it reports
\* flagged; without a service or when the call fails it returns true, and no
\* exception leaves it.
C10_FailOpen ==
    gate.called /\ ~HasDenylistedWord(gate.text) =>
        /\ ~gate.raised
        /\ ~gate.safe <=> (openai_enabled /\ gate.service = "flagged")
        /\ gate.calls = IF openai_enabled THEN 1 ELSE 0

C10_Witness ==
    /\ gate.called
    /\ openai_enabled
    /\ gate.service = "raise"
    /\ gate.text = <<"x">> \o BADWORD1 \o <<"_">>
    /\ gate.safe
    /\ ~gate.raised

----------------------------------------------------------------------------
(* Properties of the history store, checked under SpecHistory.             *)

\* the rows of channel_id in h, in insertion order, as load returns them
channel_entries(h, channel_id) ==
    LET rows == SelectSeq(h, LAMBDA r : r.channel_id = channel_id)
    IN  [i \in 1..Len(rows) |-> <<rows[i].role, rows[i].content>>]

\* the last n elements of s, all of them when s has fewer
last_n(s, n) ==
    IF Len(s) <= n THEN s ELSE SubSeq(s, Len(s) - n + 1, Len(s))

\* C11: after any sequence of appends, load_history_for_channel(channel,
\* limit) returns the most recently appended entries of the channel, at most
\* limit of them (all when fewer exist), oldest first in insertion order,
\* whatever their created_at readings are.
C11_LoadReturnsLatestInOrder ==
    load_call.called =>
        load_call.rows = last_n(channel_entries(history, load_call.channel_id),
                             load_call.limit)

----------------------------------------------------------------------------
(* Properties of the repair transform, checked under SpecRepair.           *)

\* text has no two spaces in a row and no space before one of ? . ! ,
FreeOfSpacingFaults(text) ==
    \A i \in 1..(Len(text) - 1) :
        text[i] = " " => text[i + 1] \notin ({" "} \cup PUNCTUATION)

\* C20: the fallback repair transform is idempotent: for every input that
\* has no double space and no space before ? . ! , applying it to its own
\* result gives that result again.
C20_FallbackIdempotent ==
    (repair.runs = 2 /\ repair.fallback /\ FreeOfSpacingFaults(repair.text))
        => repair.again = repair.out

----------------------------------------------------------------------------
(* Properties of the text repair requests, checked under SpecEdit.         *)

\* a slash command has resolved its target (defer went through)
Resolved ==
    ~edit.menu /\ edit.out # <<>>

\* message_identifier is a bare integer
BareInteger ==
    /\ edit.identifier.given
    /\ edit.identifier.text # <<>>
    /\ \A i \in 1..Len(edit.identifier.text) :
          edit.identifier.text[i] \in DIGITS

\* the messages of the current channel whose id is the bare integer, when
\* the platform answers the fetch
ReachableById ==
    IF BareInteger /\ edit.net.by_id
    THEN { m \in Range(world_of(edit.scene).recent) :
           m.id = int_of(edit.identifier.text) }
    ELSE {}

\* the messages the deep link of message_identifier names, when the platform
\* answers the fetch
ReachableByLink ==
    LET link == link_match(edit.identifier.text)
    IN  IF edit.identifier.given /\ link.matched /\ edit.net.by_link
        THEN { m \in all_messages(world_of(edit.scene)) :
               m.channel_id = link.ch_id /\ m.id = link.msg_id }
        ELSE {}

\* C12: the resolver tries its lookups in a fixed order, each ending the
\* resolution when it succeeds: a bare integer is first fetched as a message
\* id in the current channel; the deep link is tried only if the identifier
\* is not a bare integer or that fetch did not succeed; and when the fetch
\* by id succeeds, its message is the result.
C12_NumericLookupFirst ==
    Resolved =>
        /\ BareInteger =>
              (edit.steps # <<>> /\ edit.steps[1] = "by_id")
        /\ "by_link" \in Range(edit.steps) =>
              (~BareInteger \/ ReachableById = {})
        /\ ReachableById # {} =>
              /\ edit.found
              /\ edit.target \in ReachableById
              /\ edit.steps = <<"by_id">>

\* message 5 of the current channel was asked for by its id and fetched
C12_Witness ==
    /\ Resolved
    /\ edit.pc = "done"
    /\ edit.identifier.text = <<"5">>
    /\ edit.found
    /\ edit.target.id = 5
    /\ edit.steps = <<"by_id">>

\* the 10 most recent messages of the current channel, newest first
ScanWindow ==
    LET recent == world_of(edit.scene).recent
    IN  SubSeq(recent, 1, IF Len(recent) < 10 THEN Len(recent) ELSE 10)

\* C13: when the identifier is absent, or the lookups by id and by link
\* fail (a transport error included), the resolver scans at most the 10 most
\* recent messages of the current channel and returns the most recent one
\* not written by a bot; when there is none, or the scan fails, it returns
\* nothing and the command answers that it could not find the target
\* message, with no error raised.
C13_ScanFallback ==
    (Resolved /\ ReachableById = {} /\ ReachableByLink = {}) =>
        LET users == { i \in 1..Len(ScanWindow) :
                       ~ScanWindow[i].author_bot }
        IN  IF edit.net.scan /\ users # {}
            THEN /\ edit.found
                 /\ \E i \in users :
                       /\ edit.target = ScanWindow[i]
                       /\ \A j \in users : i <= j
            ELSE /\ ~edit.found
                 /\ Len(edit.out) = 1
                 /\ edit.out[1].via = "followup.send"
                 /\ edit.out[1].text = not_found_message(edit.command)
                 /\ edit.pc \in {"responding", "done", "crashed"}

\* no identifier, and the one message of a user is the 11th most recent of
\* the channel: the command has answered that it found no target
C13_Witness ==
    /\ Resolved
    /\ edit.pc = "done"
    /\ ~edit.identifier.given
    /\ edit.net.scan
    /\ edit.scene.has_user
    /\ edit.scene.leading = 10
    /\ ~edit.found
    /\ edit.out[1].kind = "not_found"

\* the kinds of the messages the handler has handed to the platform
EditKinds ==
    [i \in 1..Len(edit.out) |-> edit.out[i].kind]

\* C14: for every text repair request (edit or editarticle, slash command or
\* context menu) that has a target: if the target is written by a bot or the
\* gate flags its text, exactly one rejection is sent and no corrected text
\* is posted; otherwise the acknowledgment is sent and then, its send having
\* returned, the corrected text under the requester's name, and nothing
\* else.  A text on the denylist is always flagged.
C14_RejectionOrAckThenCorrected ==
    (edit.out # <<>> /\ edit.found) =>
        /\ (HasDenylistedWord(edit.target.content)
            /\ ~edit.target.author_bot) => edit.flagged
        /\ IF edit.target.author_bot
           THEN EditKinds = <<"bot_target">>
           ELSE IF edit.flagged
           THEN EditKinds = <<"unsafe">>
           ELSE /\ EditKinds \in {<<"ack">>, <<"ack", "corrected">>}
                /\ edit.pc = "acknowledging" => EditKinds = <<"ack">>
                /\ edit.pc \in {"posting", "done"} =>
                      EditKinds = <<"ack", "corrected">>
                /\ Len(edit.out) = 2 =>
                      /\ edit.out[1].via = "followup.send"
                      /\ edit.out[2].via = "channel.send"
                      /\ edit.user \in Range(edit.out[2].text)
                      /\ edit.out[2].body = edit.repaired

\* a slash command has acknowledged and posted the repaired text of a
\* message of a user
C14_Witness ==
    /\ edit.pc = "done"
    /\ ~edit.menu
    /\ edit.found
    /\ ~edit.target.author_bot
    /\ ~edit.flagged
    /\ EditKinds = <<"ack", "corrected">>
    /\ edit.out[2].body = <<"H", "i", " ", "u", ".">>

----------------------------------------------------------------------------
(* Properties of chat turns that run at the same time, checked under       *)
(* SpecChat.                                                               *)

\* the message of turn t is a reply of a user to a message of this bot
ReplyToBot(t) ==
    ~turn[t].message.author_bot /\ turn[t].message.reference = "bot"

\* C15: a message starts a chat turn only if a non-bot user wrote it as a
\* reply whose resolved reference is a message of this bot.  For every other
\* message (no reference, a reference to someone else, an unresolved
\* reference, an author that is a bot) the handler returns at once: it saves
\* no entry, calls no backend, sends nothing, and its step leaves the
\* history as it was.
C15_OnlyRepliesToBotStartTurn ==
    /\ [](\A t \in Turns :
            (Ran(t) /\ ~ReplyToBot(t)) =>
                /\ turn[t].pc = "done"
                /\ turn[t].gate_in = "none"
                /\ turn[t].appended = <<>>
                /\ turn[t].backend_calls = 0
                /\ turn[t].messages = <<>>
                /\ turn[t].sent = <<>>)
    /\ [][\A t \in Turns :
            (turn[t].pc = "idle" /\ turn'[t].pc # "idle"
             /\ ~(~turn'[t].message.author_bot
                  /\ turn'[t].message.reference = "bot")) =>
                (history' = history /\ trace' = trace)]_vars

\* a bot's own reply to a message of this bot was handled and left alone,
\* while the reply of a user became a turn
C15_Witness ==
    \E t \in Turns, u \in Turns :
        /\ turn[t].pc = "done"
        /\ turn[t].message.author_bot
        /\ turn[t].message.reference = "bot"
        /\ turn[t].sent = <<>>
        /\ u # t
        /\ Accepted(u)
        /\ turn[u].pc = "done"
        /\ Len(history) = 2

\* C16: every handled reply-to-bot message ends with at least one response
\* handed to the platform and with no failure leaving the handler, also
\* when the moderation call, the completion call or a write to the history
\* table fails.  Stated of on_message; an exception raised by the sending
\* call itself is let through.
C16_AlwaysResponds ==
    \A t \in Turns :
        (ReplyToBot(t) /\ turn[t].pc \in {"done", "crashed"}) =>
            Len(turn[t].sent) >= 1

\* the position of what turn t did in the trace, 0 if it did not
pos(t, what) ==
    IF did(t, what) \in Range(trace)
    THEN CHOOSE i \in 1..Len(trace) : trace[i] = did(t, what)
    ELSE 0

SameChannel(a, b) ==
    turn[a].message.channel = turn[b].message.channel

\* C17: of two chat turns on one channel, the one whose entries come first
\* in the history is the one that completes first (message.reply returns).
C17_AppendOrderIsCompletionOrder ==
    \A a \in Turns, b \in Turns :
        (/\ a # b
         /\ SameChannel(a, b)
         /\ pos(a, "returned") > 0
         /\ pos(b, "returned") > 0
         /\ pos(a, "user") < pos(b, "user")) =>
            pos(a, "returned") < pos(b, "returned")

\* the saves of the trace, in order: one for each row of the table
Appends ==
    SelectSeq(trace, LAMBDA e : e.what \in {"user", "assistant"})

\* C18: under every interleaving of chat turns on one channel, the user
\* entry and the assistant entry of a turn are adjacent in the history of
\* the channel (no entry of another turn of the channel lies between them),
\* and no turn loads its window while another turn of the channel stands
\* between its two saves.  The rows of the table are the saves of the trace.
C18_TurnEntriesAdjacent ==
    /\ Len(Appends) = Len(history)
    /\ \A i \in 1..Len(Appends) :
          /\ history[i].role = Appends[i].what
          /\ history[i].channel_id = turn[Appends[i].turn].message.channel
    /\ \A i \in 1..Len(Appends), j \in 1..Len(Appends), k \in 1..Len(Appends) :
          (/\ i < k /\ k < j
           /\ Appends[i] = did(Appends[j].turn, "user")
           /\ Appends[j].what = "assistant") =>
              (Appends[k].turn = Appends[i].turn
               \/ ~SameChannel(Appends[k].turn, Appends[i].turn))
    /\ \A t \in Turns, u \in Turns :
          (/\ t # u
           /\ SameChannel(t, u)
           /\ pos(u, "user") > 0
           /\ pos(u, "user") < pos(t, "user")) =>
              \E q \in 1..(pos(t, "user") - 1) :
                  trace[q] \in {did(u, "assistant"), did(u, "raised")}

\* two turns of one channel overlapped: the second ran while the first was
\* suspended in message.reply, and both have saved their two entries
C18_Witness ==
    \E a \in Turns, b \in Turns :
        /\ a # b
        /\ SameChannel(a, b)
        /\ pos(a, "reply") > 0
        /\ pos(a, "reply") < pos(b, "user")
        /\ pos(b, "assistant") < pos(a, "returned")
        /\ Len(history) = 4

\* the row of the user entry of turn t in the table, 0 if it has none
UserRow(t) ==
    IF did(t, "user") \in Range(Appends)
    THEN CHOOSE i \in 1..Len(Appends) : Appends[i] = did(t, "user")
    ELSE 0

\* C19: the list submitted to the backend is the system instruction, then
\* the entries of the channel persisted before the turn (at most 10, oldest
\* first), then the user's new text: that text is in the list once for this
\* turn, as its last message.
C19_SubmittedListHasTurnOnce ==
    \A t \in Turns :
        turn[t].backend_calls = 1 =>
            LET before == channel_entries(
                              SubSeq(history, 1, UserRow(t) - 1),
                              turn[t].message.channel)
                window == last_n(before, 10)
            IN  turn[t].messages =
                    <<[role |-> "system", content |-> SYSTEM_PROMPT]>>
                    \o [i \in 1..Len(window) |->
                           [role |-> window[i][1], content |-> window[i][2]]]
                    \o <<[role |-> "user",
                          content |-> turn[t].message.content]>>

====
